---- MODULE Spec2Model ----
(***************************************************************************)
(* The virtual path tree of nbrowser: Path / DirPath / FilePath nodes      *)
(* (paths.py), the 7z-backed directories (archive_paths.py) and the        *)
(* navigator operations of the Terminal (nbrowser.py, commands.py).        *)
(*                                                                         *)
(* A path string is a sequence of segments: "/data/sub" is <<"data","sub">>*)
(* and "/" is <<>>.  A constructor's name argument is a record             *)
(* [abs, segs]: an absolute path or a relative one.                        *)
(***************************************************************************)
EXTENDS Integers, Sequences, FiniteSets, TLC

VARIABLES
    nodes,      \* the heap of Path objects: node identity -> record
    dicts,      \* the heap of children dicts: dict identity -> (name -> node)
    handles,    \* the opened py7zr.SevenZipFile objects, a handle is its index
    current,    \* Terminal.current
    start,      \* Terminal.start
    pc,         \* where the session is: "shell", "password", "crashed"
    pending,    \* the get_archive_file() call suspended in a password prompt
    tmpfs,      \* the temporary files made by tempfile.mkstemp, a file is its index
    tempfiles,  \* Terminal.tempfiles
    apiOps,     \* the number of direct mapping calls (set, delete) made so far
    streams,    \* history: the binary streams v_open has returned, [node, arg, data]
    world,      \* what /data/archive.7z holds (fixed for a session)
    lastError,  \* the last message given to Terminal.error
    lastOp      \* history: the operation performed by the last step

vars == <<nodes, dicts, handles, tmpfs, tempfiles, apiOps, streams, current, start, pc, pending, world, lastError, lastOp>>

(***************************************************************************)
(* os.path on segment sequences.                                           *)
(***************************************************************************)
NoPath == <<"<None>">>

\* Object identities.  An object is named by the path it was constructed with and
\* the number of objects constructed with that path before it, so that the name
\* does not depend on the order in which the tree was explored.
Id(p, g) == [p |-> p, g |-> g]
None == Id(NoPath, 0)
KeyError == Id(NoPath, 1)
Scratch == Id(NoPath, 2)
NoHandle == 0

\* Backend tags are strings, and Path.absorb stores a path string in the backend
\* field: a string is a sequence here, the path string "/a/b" being <<"/", "a", "b">>
FS == <<"fs">>
PY7ZR == <<"py7zr">>
PathStr(p) == <<"/">> \o p

Rel(name) == [abs |-> FALSE, segs |-> <<name>>]
Abs(p) == [abs |-> TRUE, segs |-> p]

BaseName(p) == IF p = <<>> THEN "" ELSE p[Len(p)]

DirName(p) == IF p = <<>> THEN <<>> ELSE SubSeq(p, 1, Len(p) - 1)

RECURSIVE NormPath(_)
NormPath(p) ==
    IF p = <<>> THEN <<>>
    ELSE LET head == NormPath(SubSeq(p, 1, Len(p) - 1))
             seg == p[Len(p)]
         IN  IF seg = "." \/ seg = "" THEN head
             ELSE IF seg = ".." THEN DirName(head)
             ELSE Append(head, seg)

\* os.path.join(base, arg): an absolute arg replaces base
Join(base, arg) == IF arg.abs THEN arg.segs ELSE base \o arg.segs

RECURSIVE CommonLen(_, _)
CommonLen(p, q) ==
    IF p = <<>> \/ q = <<>> \/ Head(p) # Head(q) THEN 0
    ELSE 1 + CommonLen(Tail(p), Tail(q))

\* os.path.relpath(p, from) of two absolute paths, as_posix(): a segment sequence
RelPath(p, from) ==
    LET np == NormPath(p)
        nf == NormPath(from)
        c == CommonLen(np, nf)
        ups == [i \in 1..(Len(nf) - c) |-> ".."]
        rest == SubSeq(np, c + 1, Len(np))
    IN  IF ups \o rest = <<>> THEN <<".">> ELSE ups \o rest

\* os.path.splitext(name)[1] for the names of this world
ExtOf(name) ==
    CASE name \in {"archive.7z", "inner.7z"} -> ".7z"
      [] name \in {"b.txt", "d.txt", "readme.txt"} -> ".txt"
      [] OTHER -> ""

(***************************************************************************)
(* The world outside the program: the filesystem and the archives.         *)
(***************************************************************************)
StartPath == <<"data">>

FsEntry(n, d) == [name |-> n, isdir |-> d]

\* glob.glob(os.path.join(path, '*')) with os.path.isdir of each result
FsList(p) ==
    CASE p = <<>> -> << FsEntry("data", TRUE), FsEntry("readme.txt", FALSE) >>
      [] p = <<"data">> -> << FsEntry("archive.7z", FALSE) >>
      [] OTHER -> << >>

InnerBytes == <<7, 7>>

\* one entry of SevenZipFile.header.files_info.files: 'folder' is None for a directory
Entry(fn, isFolder, bytes) ==
    [filename |-> fn, folder |-> IF isFolder THEN "None" ELSE "Folder", data |-> bytes]

CatalogFull ==
    << Entry(<<"a">>, TRUE, <<>>),
       Entry(<<"a", "b.txt">>, FALSE, <<1, 2>>),
       Entry(<<"a", "c">>, TRUE, <<>>),
       Entry(<<"a", "c", "d.txt">>, FALSE, <<4>>),
       Entry(<<"inner.7z">>, FALSE, InnerBytes) >>

\* an archive written without an entry for the folder a/c
CatalogSparse ==
    << Entry(<<"a">>, TRUE, <<>>),
       Entry(<<"a", "b.txt">>, FALSE, <<1, 2>>),
       Entry(<<"a", "c", "d.txt">>, FALSE, <<4>>) >>

CatalogInner ==
    << Entry(<<"a">>, TRUE, <<>>),
       Entry(<<"a", "b.txt">>, FALSE, <<6>>) >>

\* the archive found at /data/archive.7z
Worlds ==
    [catalog : {"full", "sparse"}, protected : BOOLEAN, corrupt : {FALSE}]
    \cup [catalog : {"full"}, protected : {FALSE}, corrupt : {TRUE}]

\* the archive a source denotes: "outer" is the file /data/archive.7z
FilesOf(arch) ==
    CASE arch = "outer" /\ world.catalog = "full" -> CatalogFull
      [] arch = "outer" /\ world.catalog = "sparse" -> CatalogSparse
      [] arch = "inner" -> CatalogInner
      [] OTHER -> << >>

IsProtected(arch) == arch = "outer" /\ world.protected

IsCorrupt(arch) == (arch = "outer" /\ world.corrupt) \/ arch = "garbage"

\* what py7zr finds behind a filesystem path or behind a byte stream
ArchiveAtPath(p) == IF p = <<"data", "archive.7z">> THEN "outer" ELSE "garbage"

ArchiveOfBytes(bytes) == IF bytes = InnerBytes THEN "inner" ELSE "garbage"

(***************************************************************************)
(* The heap.  Operators that model methods take and return a heap record   *)
(* h = [nodes, dicts, handles, ..., err, crashed, new]: err is the last    *)
(* message printed by Terminal.error or raised as a warning, crashed tells *)
(* that an exception left the method, new is the object constructed last.  *)
(***************************************************************************)
EmptyMap == [k \in {} |-> None]

\* the identity of the next object constructed with path p
NewId(h, p) == Id(p, Cardinality({n \in DOMAIN h.nodes : n.p = p}))

DirKinds == {"DirPath", "Py7zrArchivePath"}

FileKinds == {"TextFile", "BinaryFile", "ImageFile", "GenericFile"}

IsDir(h, n) == h.nodes[n].kind \in DirKinds

IsArchive(h, n) == h.nodes[n].kind = "Py7zrArchivePath"

\* DirPath.get_children
get_children(h, n) == h.dicts[h.nodes[n].children]

Keys(h, n) == DOMAIN get_children(h, n)

\* os.path.abspath of a constructor's name argument; the process runs in StartPath
AbsPath(arg) == NormPath(Join(StartPath, arg))

\* mutant of get_path: a path that is not cached is the name made absolute
get_path_cwd(h, r) == IF r.path # NoPath THEN r.path ELSE AbsPath(Rel(r.name))

\* Path.get_path and DirPath.get_path, on a node record r (r need not be in the heap yet).
\* A bare relative name, the fallback of Path.get_path, is <<"<rel>", name>>.
RECURSIVE get_path(_, _)
get_path(h, r) ==
    IF r.path # NoPath THEN r.path
    ELSE IF r.kind \in DirKinds
         THEN IF r.parent = None /\ DOMAIN h.dicts[r.children] = {}
              THEN AbsPath(Rel(r.name))
              ELSE IF r.parent # None
                   THEN Join(get_path(h, h.nodes[r.parent]), Rel(r.name))
                   ELSE LET first == CHOOSE k \in DOMAIN h.dicts[r.children] : TRUE
                        IN  DirName(get_path(h, h.nodes[h.dicts[r.children][first]]))
         ELSE IF r.parent = None /\ r.backend = FS
              THEN AbsPath(Rel(r.name))
              ELSE IF r.parent = None
                   THEN <<"<rel>", r.name>>
                   ELSE Join(get_path(h, h.nodes[r.parent]), Rel(r.name))

GetPath(h, n) == get_path(h, h.nodes[n])

\* ArchivePath.get_anchor on a node record; NoPath stands for the AttributeError
\* of a parent that is no ArchivePath
RECURSIVE get_anchor(_, _)
get_anchor(h, r) ==
    IF r.anchor # NoPath THEN r.anchor
    ELSE IF r.is_anchor THEN get_path(h, r)
    ELSE IF r.parent = None \/ h.nodes[r.parent].kind # "Py7zrArchivePath" THEN NoPath
    ELSE get_anchor(h, h.nodes[r.parent])

GetAnchor(h, n) == get_anchor(h, h.nodes[n])

(***************************************************************************)
(* DirPath as a MutableMapping (paths.py).                                 *)
(***************************************************************************)
\* Path.absorb followed by DirPath.absorb (other is a DirPath): the backend takes
\* other.get_path(), and the children dict of other is shared, not copied
absorb(h, d, other) ==
    [h EXCEPT !.nodes[d] =
        [@ EXCEPT !.name = h.nodes[other].name,
                  !.parent = h.nodes[other].parent,
                  !.backend = PathStr(GetPath(h, other)),
                  !.path_type = h.nodes[other].path_type,
                  !.children = h.nodes[other].children]]

\* Path.set_parent
set_parent(h, d, p) == [h EXCEPT !.nodes[d].parent = p]

\* mutant of GetItem: '..' is not treated apart and is looked up like any key
GetItemNoParentKey(h, d, key) ==
    IF key = "." THEN d
    ELSE IF key \in Keys(h, d) THEN get_children(h, d)[key]
    ELSE KeyError

\* DirPath.__getitem__
GetItem(h, d, key) ==
    IF key = "." THEN d
    ELSE IF key = ".." THEN h.nodes[d].parent
    ELSE IF key \in Keys(h, d) THEN get_children(h, d)[key]
    ELSE KeyError

\* children[key] = value
PutChild(h, d, key, value) ==
    [h EXCEPT !.dicts[h.nodes[d].children] = (key :> value) @@ @]

\* mutant of SetItem: a reserved key is stored as well
SetItemAlsoStored(h, d, key, value) ==
    PutChild(IF key = "." THEN absorb(h, d, value)
             ELSE IF key = ".." THEN set_parent(h, d, value) ELSE h,
             d, key, value)

\* mutant of SetItem: a child is stored under its own name, as DirPath.__init__ does
SetItemByName(h, d, key, value) ==
    IF key = "." THEN absorb(h, d, value)
    ELSE IF key = ".." THEN set_parent(h, d, value)
    ELSE [h EXCEPT !.dicts[h.nodes[d].children] = (h.nodes[value].name :> value) @@ @]

\* DirPath.__setitem__
SetItem(h, d, key, value) ==
    IF key = "." THEN absorb(h, d, value)
    ELSE IF key = ".." THEN set_parent(h, d, value)
    ELSE [h EXCEPT !.dicts[h.nodes[d].children] = (key :> value) @@ @]

\* DirPath.__delitem__ of a key that is present
DelItem(h, d, key) ==
    [h EXCEPT !.dicts[h.nodes[d].children] = [k \in (DOMAIN @) \ {key} |-> @[k]]]

\* DirPath.__iter__: the keys yielded
Iterate(h, d) == Keys(h, d)

\* DirPath.__contains__
Contains(h, d, key) == key \in Keys(h, d)

\* DirPath.__len__
Size(h, d) == Cardinality(DOMAIN get_children(h, d))

(***************************************************************************)
(* Constructors.                                                           *)
(***************************************************************************)
\* Path.__init__, lines 41-45: the fields before the path is computed
PathFields(kind, arg, parent, backend, path_type, children) ==
    [kind |-> kind, name |-> BaseName(arg.segs), parent |-> parent, backend |-> backend,
     path_type |-> path_type,
     path |-> IF arg = Rel(BaseName(arg.segs)) THEN NoPath ELSE AbsPath(arg),
     children |-> children, is_anchor |-> FALSE, anchor |-> NoPath,
     archive_file |-> NoHandle, child_data |-> EmptyMap]

\* Path.__init__, line 46: self.path = self.get_path()
CachePath(h, r) == [r EXCEPT !.path = get_path(h, r)]

\* Path.__init__ on an object whose children dict (if any) is already set
PathInit(h, kind, arg, parent, backend, path_type, children) ==
    CachePath(h, PathFields(kind, arg, parent, backend, path_type, children))

\* a constructor's children dict, before the object has its identity
WithScratch(h, map) == [h EXCEPT !.dicts = (Scratch :> map) @@ @]

\* the constructed object r enters the heap as id, with its children dict (if it has one)
AllocateAs(h, r, id, hasDict, map) ==
    [h EXCEPT !.nodes = (id :> [r EXCEPT !.children = IF hasDict THEN id ELSE None]) @@ @,
              !.dicts = IF hasDict THEN (id :> map) @@ @ ELSE @,
              !.new = id]

Allocate(h, r, hasDict, map) == AllocateAs(h, r, NewId(h, r.path), hasDict, map)

\* mutant of ChildMap: the single child is stored under a fixed key
ChildMapFixedKey(h, childNode) ==
    IF childNode = None THEN EmptyMap ELSE ("child" :> childNode)

\* DirPath.__init__, lines 139-146: the children dict made of the children argument,
\* which is one Path (childNode) or None
ChildMap(h, childNode) ==
    IF childNode = None THEN EmptyMap ELSE (h.nodes[childNode].name :> childNode)

\* DirPath.__init__, lines 150-151: a parent made for '..' is named after its path
NameOfParent(h, r, map) ==
    IF r.name = ".." /\ DOMAIN map # {} THEN [r EXCEPT !.name = BaseName(get_path(h, r))] ELSE r

\* DirPath.__init__ with the children dict map
DirPathWith(h, map, arg, parent, backend, path_type) ==
    Allocate(h,
             NameOfParent(WithScratch(h, map),
                          PathInit(WithScratch(h, map), "DirPath", arg, parent, backend,
                                   path_type, Scratch),
                          map),
             TRUE, map)

\* DirPath.__init__; childNode is the single Path given as children, or None
DirPathInit(h, arg, parent, backend, path_type, childNode) ==
    DirPathWith(h, ChildMap(h, childNode), arg, parent, backend, path_type)

\* TextFile / BinaryFile / ImageFile pin their type, GenericFile takes the one given
PinnedType(kind, path_type) ==
    CASE kind = "TextFile" -> "text"
      [] kind = "BinaryFile" -> "binary"
      [] kind = "ImageFile" -> "image"
      [] OTHER -> path_type

\* TextFile / BinaryFile / ImageFile / GenericFile __init__
FileInit(h, kind, arg, parent, backend, path_type) ==
    Allocate(h, PathInit(h, kind, arg, parent, backend, PinnedType(kind, path_type), None),
             FALSE, EmptyMap)

\* mutant of InitAnchor: every node takes its own path as anchor, is_anchor is not consulted
InitAnchorOwnPath(h, r, is_anchor) == get_path(h, r)

\* ArchivePath.__init__, lines 20-21: is_anchor, and the path as anchor of an anchor
AnchorFields(h, r, is_anchor) ==
    [r EXCEPT !.is_anchor = is_anchor, !.anchor = IF is_anchor THEN get_path(h, r) ELSE NoPath]

\* ArchivePath.__init__, line 22: the memoized anchor of a new node
InitAnchor(h, r, is_anchor) == get_anchor(h, AnchorFields(h, r, is_anchor))

\* ArchivePath.__init__, lines 20-22, on the record r that Path.__init__ has filled
SetAnchor(h, r, is_anchor) ==
    [r EXCEPT !.is_anchor = is_anchor, !.anchor = InitAnchor(h, r, is_anchor)]

\* a container opened by the constructor of the node h.new
OpenEagerly(h) ==
    [h EXCEPT !.handles = Append(@, [arch |-> "inner", dirty |-> FALSE, reads |-> {}, nreads |-> 0]),
              !.nodes[h.new].archive_file = Len(h.handles) + 1]

\* mutant of ArchiveInit: the constructor opens the container
ArchiveInitEager(h, arg, parent, backend, path_type, is_anchor) ==
    OpenEagerly(Allocate(h,
                         SetAnchor(WithScratch(h, EmptyMap),
                                   PathInit(WithScratch(h, EmptyMap), "Py7zrArchivePath", arg,
                                            parent, PY7ZR, path_type, Scratch),
                                   is_anchor),
                         TRUE, EmptyMap))

\* Py7zrArchivePath.__init__ (VirtualDirPath.__init__, ArchivePath.__init__): the
\* backend argument is ignored
ArchiveInit(h, arg, parent, backend, path_type, is_anchor) ==
    Allocate(h,
             SetAnchor(WithScratch(h, EmptyMap),
                       PathInit(WithScratch(h, EmptyMap), "Py7zrArchivePath", arg, parent, PY7ZR,
                                path_type, Scratch),
                       is_anchor),
             TRUE, EmptyMap)

(***************************************************************************)
(* Terminal.get_path_type, add_path, add_all_children (nbrowser.py).       *)
(***************************************************************************)
\* Terminal.get_path_type with the file_map / dir_map of __main__
get_path_type(name, is_dir) ==
    LET ext == ExtOf(name)
    IN  IF is_dir
        THEN IF ext = ".7z" THEN "7z" ELSE "dir"
        ELSE CASE ext = ".txt" -> "text"
               [] ext = ".bin" -> "binary"
               [] ext = ".png" -> "image"
               [] ext = ".pdf" -> "pdf"
               [] ext = ".7z" -> "7z"
               [] OTHER -> "text"

\* mapping[path_type][0]: the class registered for a type
ClassOf(is_dir, path_type) ==
    IF is_dir
    THEN IF path_type = "7z" THEN "Py7zrArchivePath" ELSE "DirPath"
    ELSE CASE path_type = "text" -> "TextFile"
           [] path_type = "binary" -> "BinaryFile"
           [] path_type = "image" -> "ImageFile"
           [] path_type = "7z" -> "Py7zrArchivePath"
           [] OTHER -> "GenericFile"

\* the constructor call of add_path: cls(name=..., parent=..., backend=..., path_type=..., **init_kwargs)
Construct(h, cls, arg, parent, backend, path_type, is_anchor) ==
    CASE cls = "DirPath" -> DirPathInit(h, arg, parent, backend, path_type, None)
      [] cls = "Py7zrArchivePath" -> ArchiveInit(h, arg, parent, backend, path_type, is_anchor)
      [] OTHER -> FileInit(h, cls, arg, parent, backend, path_type)

\* add_path, lines 118-119: the type detected unless one is given ("" stands for None)
PathType(arg, is_dir, path_type) ==
    IF path_type = "" THEN get_path_type(BaseName(arg.segs), is_dir) ELSE path_type

\* add_path, lines 124-133: dest[key] = the object just constructed
StoreNew(h, dest, key) == SetItem(h, dest, key, h.new)

\* Terminal.add_path; is_anchor is init_kwargs
add_path(h, dest, arg, is_dir, path_type, parent, backend, is_anchor) ==
    IF parent /\ backend = FS
    THEN StoreNew(DirPathInit(h, arg, None, backend, PathType(arg, is_dir, path_type), dest),
                  dest, "..")
    ELSE IF parent
    THEN [h EXCEPT !.err = "UnsupportedOperationWarning"]
    ELSE StoreNew(Construct(h, ClassOf(is_dir, PathType(arg, is_dir, path_type)),
                            IF backend = FS THEN arg ELSE Rel(BaseName(arg.segs)),
                            dest, backend, PathType(arg, is_dir, path_type), is_anchor),
                  dest, BaseName(arg.segs))

\* mutant of AddFsEntry: a name that is registered already is registered again
AddFsEntryAgain(h, cur, e) ==
    add_path(h, cur, Abs(Append(GetPath(h, cur), e.name)), e.isdir, "", FALSE, FS, TRUE)

\* add_all_children, lines 138-139: one glob result
AddFsEntry(h, cur, e) ==
    IF Contains(h, cur, e.name) THEN h
    ELSE add_path(h, cur, Abs(Append(GetPath(h, cur), e.name)), e.isdir, "", FALSE, FS, TRUE)

\* the loop of add_all_children over the glob result, from entry i on
RECURSIVE AddFsEntries(_, _, _, _)
AddFsEntries(h, cur, entries, i) ==
    IF i > Len(entries) THEN h
    ELSE AddFsEntries(AddFsEntry(h, cur, entries[i]), cur, entries, i + 1)

(***************************************************************************)
(* Py7zrArchivePath (archive_paths.py).                                    *)
(***************************************************************************)
PasswordTries == 3

\* bound: the temporary files made in a session
MaxTemps == 2

\* bound: the direct mapping calls made in a session
MaxApiOps == 1

\* bound: the objects on the heap beyond which navigation stops (direct calls
\* make navigation build directories anew)
MaxNodes == 6

\* a freshly opened SevenZipFile on archive arch; reads is the set of internal
\* paths read so far, nreads their number, dirty tells a read was not followed by reset()
NewHandle(arch) == [arch |-> arch, dirty |-> FALSE, reads |-> {}, nreads |-> 0]

\* the bytes py7zr yields for an internal path: nothing comes out of a handle
\* that was read and not reset
HasEntry(hd, extract) ==
    \E i \in 1..Len(FilesOf(hd.arch)) : FilesOf(hd.arch)[i].filename = extract

EntryData(hd, extract) ==
    LET files == FilesOf(hd.arch)
    IN  IF hd.dirty THEN <<>>
        ELSE files[CHOOSE i \in 1..Len(files) : files[i].filename = extract].data

\* mutant of ExtractPath: the path is taken relative to the anchor's parent directory
ExtractPathFromParent(h, d, arg) ==
    RelPath(Join(GetPath(h, d), arg), DirName(GetAnchor(h, d)))

\* the internal path v_open asks the archive for
ExtractPath(h, d, arg) == RelPath(Join(GetPath(h, d), arg), GetAnchor(h, d))

\* mutant of HandleReset: the read cursor is left where the read ended
HandleResetNone(hd) == hd

\* SevenZipFile.read([extract_path]) and SevenZipFile.reset()
HandleRead(hd, extract) ==
    [hd EXCEPT !.dirty = TRUE, !.reads = @ \cup {extract}, !.nreads = @ + 1]

HandleReset(hd) == [hd EXCEPT !.dirty = FALSE]

\* v_open, lines 101-102: the entry is read from the handle into child_data[path] and
\* the handle is reset; a missing handle or entry raises
ReadEntry(h, d, arg, hid, extract) ==
    IF hid = NoHandle \/ ~HasEntry(h.handles[hid], extract)
    THEN [h EXCEPT !.crashed = TRUE]
    ELSE [h EXCEPT !.nodes[d].child_data = (arg :> EntryData(h.handles[hid], extract)) @@ @,
                   !.handles[hid] = HandleReset(HandleRead(@, extract))]

\* mutant of VOpenFill: the entry is read from the handle on every call
VOpenFillAlways(h, d, arg) ==
    ReadEntry(h, d, arg, h.nodes[d].archive_file, ExtractPath(h, d, arg))

\* v_open, lines 98-102: fill child_data[path] on a miss
VOpenFill(h, d, arg) ==
    IF arg \in DOMAIN h.nodes[d].child_data THEN h
    ELSE ReadEntry(h, d, arg, h.nodes[d].archive_file, ExtractPath(h, d, arg))

\* mutant of CopyFileObj: the last byte is not written
CopyFileObjShort(data) == [i \in 1..(Len(data) - 1) |-> data[i]]

\* shutil.copyfileobj(BytesIO(data), f): the bytes written to the temp file
CopyFileObj(data) == [i \in 1..Len(data) |-> data[i]]

\* mutant of VOpenTemp: the temp file is made and written but not queued for cleanup
VOpenTempUntracked(h, d, arg) ==
    [h EXCEPT !.tmpfs = Append(@, [data |-> CopyFileObj(h.nodes[d].child_data[arg]),
                                   suffix |-> ExtOf(BaseName(arg.segs)),
                                   node |-> d, arg |-> arg, exists |-> TRUE])]

\* v_open, lines 103-109: the temp file is made, queued for cleanup and written
VOpenTemp(h, d, arg) ==
    [h EXCEPT !.tmpfs = Append(@, [data |-> CopyFileObj(h.nodes[d].child_data[arg]),
                                   suffix |-> ExtOf(BaseName(arg.segs)),
                                   node |-> d, arg |-> arg, exists |-> TRUE]),
              !.tempfiles = Append(@, Len(h.tmpfs) + 1)]

\* v_open, lines 110-114: the content of the stream returned
VOpenStream(h, d, arg, text) ==
    IF text THEN [str |-> h.nodes[d].child_data[arg]] ELSE h.nodes[d].child_data[arg]

\* v_open, line 103: if temp
VOpenBranch(h, d, arg, temp) == IF h.crashed \/ ~temp THEN h ELSE VOpenTemp(h, d, arg)

\* Py7zrArchivePath.v_open: the heap afterwards
v_open(h, d, arg, temp) == VOpenBranch(VOpenFill(h, d, arg), d, arg, temp)

\* mutant of ResolveFrom: a handle that is held already is not reused
RECURSIVE ResolveFromNoCache(_, _, _)
ResolveFromNoCache(h, n, asked) ==
    IF h.nodes[n].is_anchor THEN [kind |-> "open", anchor |-> n]
    ELSE IF h.nodes[n].parent = None \/ ~IsArchive(h, h.nodes[n].parent) THEN [kind |-> "crash"]
    ELSE IF h.nodes[n].parent \in asked \cup {n} THEN [kind |-> "crash"]
    ELSE ResolveFromNoCache(h, h.nodes[n].parent, asked \cup {n})

\* get_archive_file, lines 50-54: the handle found, or the anchor that has to open
\* one; "crash" is the AttributeError of a parent that is no archive and the
\* RecursionError of a parent chain that comes back to a node already asked
RECURSIVE ResolveFrom(_, _, _)
ResolveFrom(h, n, asked) ==
    IF h.nodes[n].archive_file # NoHandle THEN [kind |-> "have", handle |-> h.nodes[n].archive_file]
    ELSE IF h.nodes[n].is_anchor THEN [kind |-> "open", anchor |-> n]
    ELSE IF h.nodes[n].parent = None \/ ~IsArchive(h, h.nodes[n].parent) THEN [kind |-> "crash"]
    ELSE IF h.nodes[n].parent \in asked \cup {n} THEN [kind |-> "crash"]
    ELSE ResolveFrom(h, h.nodes[n].parent, asked \cup {n})

ResolveHandle(h, n) == ResolveFrom(h, n, {})

\* get_archive_file, line 59: the stream of parent.v_open(name) as the file
StreamSource(h, p, arg) ==
    [h |-> h,
     arch |-> IF h.crashed THEN "garbage" ELSE ArchiveOfBytes(h.nodes[p].child_data[arg])]

\* mutant of SourceVia: the container is always opened by its path
SourceViaPath(h, m, p) ==
    IF p = None THEN [h |-> [h EXCEPT !.crashed = TRUE], arch |-> "garbage"]
    ELSE [h |-> h, arch |-> ArchiveAtPath(GetPath(h, m))]

\* get_archive_file, lines 56-59, with p the parent of the anchor m
SourceVia(h, m, p) ==
    IF p = None THEN [h |-> [h EXCEPT !.crashed = TRUE], arch |-> "garbage"]
    ELSE IF h.nodes[p].backend = FS
    THEN [h |-> h, arch |-> ArchiveAtPath(GetPath(h, m))]
    ELSE StreamSource(IF IsArchive(h, p) THEN v_open(h, p, Rel(h.nodes[m].name), FALSE)
                      ELSE [h EXCEPT !.crashed = TRUE],
                      p, Rel(h.nodes[m].name))

\* get_archive_file, lines 56-59: the file handed to py7zr; the heap changes when
\* the bytes come through the parent's v_open
OpenSource(h, m) == SourceVia(h, m, h.nodes[m].parent)

\* a dict as a sequence of <<key, value>> in insertion order: d[key] = value
DictPut(d, key, value) ==
    IF \E i \in 1..Len(d) : d[i][1] = key
    THEN [i \in 1..Len(d) |-> IF d[i][1] = key THEN <<key, value>> ELSE d[i]]
    ELSE Append(d, <<key, value>>)

\* mutant of FilterTest: the path is not normalized and the anchor is not joined
FilterTestNoAnchor(h, n, file) ==
    /\ GetPath(h, n) = DirName(file.filename)
    /\ BaseName(file.filename) \notin Keys(h, n)

\* mutant of FilterTest: entries already registered are not skipped
FilterTestNoSkip(h, n, file) ==
    NormPath(GetPath(h, n))
      = NormPath(DirName(Join(GetAnchor(h, n), [abs |-> FALSE, segs |-> file.filename])))

\* the test of filter_children, lines 78-80
FilterTest(h, n, file) ==
    /\ NormPath(GetPath(h, n))
         = NormPath(DirName(Join(GetAnchor(h, n), [abs |-> FALSE, segs |-> file.filename])))
    /\ BaseName(file.filename) \notin Keys(h, n)

\* Py7zrArchivePath.filter_children
RECURSIVE FilterFrom(_, _, _, _, _)
FilterFrom(h, n, files, i, acc) ==
    IF i > Len(files) THEN acc
    ELSE FilterFrom(h, n, files, i + 1,
                    IF FilterTest(h, n, files[i])
                    THEN DictPut(acc, BaseName(files[i].filename), files[i]) ELSE acc)

filter_children(h, n, files) == FilterFrom(h, n, files, 1, << >>)

\* mutant of RegisterEntry: every entry is registered with the default is_anchor
RegisterEntryAnchor(h, n, item, file) ==
    add_path(h, n, Rel(item), file.folder = "None",
             IF file.folder = "None" THEN "7z" ELSE "", FALSE, PY7ZR, TRUE)

\* find_children, lines 91-95: an entry whose 'folder' is None becomes a directory of
\* type '7z' that is no anchor, any other entry a file of the detected type
RegisterEntry(h, n, item, file) ==
    add_path(h, n, Rel(item), file.folder = "None",
             IF file.folder = "None" THEN "7z" ELSE "", FALSE, PY7ZR, file.folder # "None")

\* find_children, lines 90-95: register the filtered entries
RECURSIVE RegisterFrom(_, _, _, _)
RegisterFrom(h, n, child_info, i) ==
    IF i > Len(child_info) THEN h
    ELSE RegisterFrom(RegisterEntry(h, n, child_info[i][1], child_info[i][2]),
                      n, child_info, i + 1)

\* find_children, line 86: the node has its handle already
HasHandle(h, n) == h.nodes[n].archive_file # NoHandle

\* find_children, lines 88-95: nothing is registered without a handle
RegisterAll(h, n, hid) ==
    IF hid = NoHandle THEN h
    ELSE RegisterFrom(h, n, filter_children(h, n, FilesOf(h.handles[hid].arch)), 1)

\* mutant of FindChildrenWith: a failed open is remembered on the node
FindChildrenWithMemo(h, n, hid) ==
    RegisterAll([h EXCEPT !.nodes[n].archive_file = IF hid = NoHandle THEN -1 ELSE hid], n, hid)

\* find_children, lines 86-95, once get_archive_file has returned hid (NoHandle: None)
FindChildrenWith(h, n, hid) == RegisterAll([h EXCEPT !.nodes[n].archive_file = hid], n, hid)

(***************************************************************************)
(* The session: Terminal.__init__ and the commands (commands.py).          *)
(***************************************************************************)
\* the heap of the current state; err and crashed start clean for each command
H == [nodes |-> nodes, dicts |-> dicts, handles |-> handles, tmpfs |-> tmpfs,
      tempfiles |-> tempfiles, err |-> "", crashed |-> FALSE, new |-> None]

Commit(h) ==
    /\ nodes' = h.nodes
    /\ dicts' = h.dicts
    /\ handles' = h.handles
    /\ tmpfs' = h.tmpfs
    /\ tempfiles' = h.tempfiles
    /\ lastError' = h.err

NoPending == [node |-> None]

NoPop == [node |-> None]

PopOf(h, n, info) ==
    [node |-> n, before |-> get_children(h, n), again |-> HasHandle(h, n),
     selected |-> {info[i][2].filename : i \in 1..Len(info)}]

\* history: what a run of find_children on n with handle hid is about to register
PopInfo(h, n, hid) ==
    IF hid = NoHandle THEN NoPop
    ELSE PopOf(h, n, filter_children(h, n, FilesOf(h.handles[hid].arch)))

\* the answer of get_archive_file up to the first prompt: the heap, the handle
\* (NoHandle: None), and ask, which tells that it stopped in Terminal.password
Answer(h, hid, ask, anchor, arch) ==
    [h |-> h, hid |-> hid, ask |-> ask, anchor |-> anchor, arch |-> arch]

\* str(e) of the py7zr.exceptions.ArchiveError raised for a file that is no archive
ArchiveErrorOf(arch) == IF IsCorrupt(arch) THEN "not a 7z file" ELSE ""

\* get_archive_file, line 72: f'Decompression error: {str(e)}'
DecompressionError(arch) ==
    IF ArchiveErrorOf(arch) = "not a 7z file" THEN "Decompression error: not a 7z file"
    ELSE "Decompression error: "

\* mutant of OpenArchive: the ArchiveError is not caught
OpenArchiveUncaught(src, m) ==
    IF src.h.crashed THEN Answer(src.h, NoHandle, FALSE, m, src.arch)
    ELSE IF IsCorrupt(src.arch)
    THEN Answer([src.h EXCEPT !.crashed = TRUE], NoHandle, FALSE, m, src.arch)
    ELSE IF IsProtected(src.arch)
    THEN Answer(src.h, NoHandle, TRUE, m, src.arch)
    ELSE Answer([src.h EXCEPT !.handles = Append(@, NewHandle(src.arch))],
                Len(src.h.handles) + 1, FALSE, m, src.arch)

\* get_archive_file, lines 60-72, with the file src handed to py7zr by anchor m
OpenArchive(src, m) ==
    IF src.h.crashed THEN Answer(src.h, NoHandle, FALSE, m, src.arch)
    ELSE IF IsCorrupt(src.arch)
    THEN Answer([src.h EXCEPT !.err = DecompressionError(src.arch)], NoHandle, FALSE, m, src.arch)
    ELSE IF IsProtected(src.arch)
    THEN Answer(src.h, NoHandle, TRUE, m, src.arch)
    ELSE Answer([src.h EXCEPT !.handles = Append(@, NewHandle(src.arch))],
                Len(src.h.handles) + 1, FALSE, m, src.arch)

\* Py7zrArchivePath.get_archive_file, from the resolution r of the handle
GetArchiveFile(h, r) ==
    CASE r.kind = "have" -> Answer(h, r.handle, FALSE, None, "")
      [] r.kind = "crash" -> Answer([h EXCEPT !.crashed = TRUE], NoHandle, FALSE, None, "")
      [] OTHER -> OpenArchive(OpenSource(h, r.anchor), r.anchor)

\* Py7zrArchivePath.find_children on n, with the answer g of get_archive_file
FindChildren(g, n) ==
    IF g.h.crashed \/ g.ask
    THEN [h |-> g.h, ask |-> g.ask, pop |-> NoPop, anchor |-> g.anchor, arch |-> g.arch]
    ELSE [h |-> FindChildrenWith(g.h, n, g.hid), ask |-> FALSE, pop |-> PopInfo(g.h, n, g.hid),
          anchor |-> g.anchor, arch |-> g.arch]

\* Terminal.add_all_children with current = n, up to the first password prompt
add_all_children(h, n) ==
    IF h.nodes[n].backend = FS
    THEN [h |-> AddFsEntries(h, n, FsList(GetPath(h, n)), 1), ask |-> FALSE, pop |-> NoPop,
          anchor |-> None, arch |-> ""]
    ELSE IF ~IsArchive(h, n)
    THEN [h |-> [h EXCEPT !.crashed = TRUE], ask |-> FALSE, pop |-> NoPop,
          anchor |-> None, arch |-> ""]
    ELSE FindChildren(GetArchiveFile(h, ResolveHandle(h, n)), n)

\* the arguments tried: every child of the current directory, the reserved names,
\* no argument, and a name that no directory holds
CdArgs == Keys(H, current) \cup {"", ".", "..", "nope"}

\* cd, lines 98-100: the parent add_path has made becomes the current directory
ToNewParent(h, cur) == [h |-> h, to |-> h.nodes[cur].parent, list |-> TRUE]

\* mutant of CdHome: cd without argument stays where it is
CdHomeStay(h, cur) == [h |-> h, to |-> cur, list |-> FALSE]

\* cd, lines 85-86: no argument, context.current = context.start
CdHome(h, cur) == [h |-> h, to |-> start, list |-> FALSE]

\* mutant of CdFail: the failing cd says nothing
CdFailSilent(h, cur, message) == [h |-> h, to |-> cur, list |-> FALSE]

\* cd, lines 91, 104, 106: context.error(message), and nothing else
CdFail(h, cur, message) == [h |-> [h EXCEPT !.err = message], to |-> cur, list |-> FALSE]

\* the pointer move of BaseCommands.cd: [h, to, list]; list tells that
\* add_all_children follows
CdMove(h, cur, name) ==
    IF name = "" THEN CdHome(h, cur)
    ELSE IF Contains(h, cur, name)
    THEN IF IsDir(h, GetItem(h, cur, name))
         THEN [h |-> h, to |-> GetItem(h, cur, name), list |-> TRUE]
         ELSE CdFail(h, cur, "The given path is not a directory.")
    ELSE IF name = "." THEN [h |-> h, to |-> cur, list |-> FALSE]
    ELSE IF name = ".."
    THEN IF GetPath(h, cur) # DirName(GetPath(h, cur))
         THEN IF h.nodes[cur].parent = None
              THEN ToNewParent(add_path(h, cur, Rel(".."), TRUE, "", TRUE, FS, TRUE), cur)
              ELSE [h |-> h, to |-> h.nodes[cur].parent, list |-> FALSE]
         ELSE CdFail(h, cur, "You are at the filesystem root.")
    ELSE CdFail(h, cur, "The given path was not found.")

\* the state after cd name: mv is the pointer move, r what add_all_children did
CdDone(name, mv, r) ==
    /\ Commit(r.h)
    /\ current' = mv.to
    /\ pc' = IF r.h.crashed THEN "crashed" ELSE IF r.ask THEN "password" ELSE "shell"
    /\ pending' = IF r.ask
                   THEN [node |-> mv.to, anchor |-> r.anchor, arch |-> r.arch,
                         answers |-> << >>, from |-> current]
                   ELSE NoPending
    /\ lastOp' = [op |-> "cd", name |-> name, from |-> current, pop |-> r.pop]

\* cd, lines 87-88 and 99-100: add_all_children runs on the new current directory
CdList(name, mv) ==
    CdDone(name, mv,
           IF mv.list THEN add_all_children(mv.h, mv.to)
           ELSE [h |-> mv.h, ask |-> FALSE, pop |-> NoPop, anchor |-> None, arch |-> ""])

\* BaseCommands.cd
Cd(name) ==
    /\ pc = "shell"
    /\ CdList(name, CdMove(H, current, name))
    /\ UNCHANGED <<start, world, streams, apiOps>>

\* mutant of LoopDone: the loop runs once more
LoopDoneLate(i) == i > PasswordTries

\* the end of the loop `for i in range(3)`
LoopDone(i) == i >= PasswordTries

\* get_archive_file returns hid (NoHandle: None) on heap h and the suspended
\* find_children goes on
PasswordEnd(h, hid, answers) ==
    /\ Commit(FindChildrenWith(h, pending.node, hid))
    /\ pc' = "shell"
    /\ pending' = NoPending
    /\ lastOp' = [op |-> "open", node |-> pending.node, from |-> pending.from,
                   answers |-> answers, result |-> hid, done |-> TRUE,
                   pop |-> PopInfo(h, pending.node, hid)]

\* a wrong password with tries left: the error is printed and the prompt comes again
PasswordAgain(answers) ==
    /\ Commit([H EXCEPT !.err = "Incorrect password."])
    /\ pc' = "password"
    /\ pending' = [pending EXCEPT !.answers = answers]
    /\ lastOp' = [op |-> "open", node |-> pending.node, from |-> pending.from,
                   answers |-> answers, result |-> NoHandle, done |-> FALSE,
                   pop |-> NoPop]

\* one turn of the password loop of get_archive_file, lines 65-70: the user answers
\* the prompt with the right password (ok) or a wrong one; the loop is left with the
\* handle on the right password and with None after the last wrong one
Password(ok) ==
    /\ pc = "password"
    /\ IF ok \/ LoopDone(Len(pending.answers) + 1)
       THEN PasswordEnd(IF ok THEN [H EXCEPT !.handles = Append(@, NewHandle(pending.arch))]
                        ELSE [H EXCEPT !.err = "Incorrect password."],
                        IF ok THEN Len(handles) + 1 ELSE NoHandle,
                        Append(pending.answers, ok))
       ELSE PasswordAgain(Append(pending.answers, ok))
    /\ UNCHANGED <<current, start, world, streams, apiOps>>

\* the files of the current directory, as the arguments their open() gives v_open
FileArgs == {Rel(k) : k \in {k \in Keys(H, current) : ~IsDir(H, GetItem(H, current, k))}}

\* what the call returns: the bytes of the temp file, or the content of the stream
VOpenResult(h, d, arg, temp, text) ==
    IF h.crashed THEN << >>
    ELSE IF temp THEN h.tmpfs[Len(h.tmpfs)].data
    ELSE VOpenStream(h, d, arg, text)

\* the state after current.v_open(arg, temp, text) has left the heap h
VOpenDone(arg, temp, text, h) ==
    /\ Commit(h)
    /\ pc' = IF h.crashed THEN "crashed" ELSE "shell"
    /\ streams' = IF ~h.crashed /\ ~temp /\ ~text
                   THEN streams \cup {[node |-> current, arg |-> arg,
                                       data |-> VOpenResult(h, current, arg, temp, text)]}
                   ELSE streams
    /\ lastOp' = [op |-> "v_open", node |-> current, arg |-> arg, temp |-> temp,
                   text |-> text, miss |-> arg \notin DOMAIN nodes[current].child_data,
                   data |-> VOpenResult(h, current, arg, temp, text),
                   extract |-> IF arg \notin DOMAIN nodes[current].child_data
                               THEN ExtractPath(H, current, arg) ELSE << >>]

\* current.v_open(arg, temp, text), the call a file of the current directory makes
VOpen(arg, temp, text) ==
    /\ pc = "shell"
    /\ IsArchive(H, current)
    /\ temp => Len(tmpfs) < MaxTemps
    /\ VOpenDone(arg, temp, text, v_open(H, current, arg, temp))
    /\ UNCHANGED <<current, start, world, pending, apiOps>>

\* the keys tried by direct mapping calls on the current directory
ApiKeys == Keys(H, current) \cup {".", "..", "k"}

\* current[key] = value, a direct call of DirPath.__setitem__
SetItemOp(key, value) ==
    /\ pc = "shell"
    /\ apiOps < MaxApiOps
    /\ Commit(SetItem(H, current, key, value))
    /\ apiOps' = apiOps + 1
    /\ lastOp' = [op |-> "set", node |-> current, key |-> key, value |-> value,
                  old |-> IF Contains(H, current, key) THEN GetItem(H, current, key) ELSE None]
    /\ UNCHANGED <<current, start, world, pending, streams, pc>>

\* del current[key], a direct call of DirPath.__delitem__; a key that is not
\* stored raises KeyError to the caller
DelItemOp(key) ==
    /\ pc = "shell"
    /\ apiOps < MaxApiOps
    /\ IF Contains(H, current, key)
       THEN Commit(DelItem(H, current, key))
       ELSE Commit([H EXCEPT !.err = "KeyError"])
    /\ apiOps' = apiOps + 1
    /\ lastOp' = [op |-> "del", node |-> current, key |-> key]
    /\ UNCHANGED <<current, start, world, pending, streams, pc>>

\* the heap before any object is made
EmptyHeap ==
    [nodes |-> EmptyMap, dicts |-> EmptyMap, handles |-> << >>, tmpfs |-> << >>,
     tempfiles |-> << >>, err |-> "", crashed |-> FALSE, new |-> None]

\* Terminal.__init__, line 44: add_all_children on the start directory just made
ListStart(h) == AddFsEntries(h, h.new, FsList(GetPath(h, h.new)), 1)

\* Terminal.__init__
InitTree ==
    /\ \E h \in {ListStart(DirPathInit(EmptyHeap, Abs(StartPath), None, FS, "dir", None))} :
          /\ nodes = h.nodes
          /\ dicts = h.dicts
          /\ handles = h.handles
          /\ tmpfs = h.tmpfs
          /\ tempfiles = h.tempfiles
    /\ streams = {}
    /\ apiOps = 0
    /\ current = Id(StartPath, 0)
    /\ start = Id(StartPath, 0)
    /\ pc = "shell"
    /\ pending = NoPending
    /\ lastError = ""
    /\ lastOp = [op |-> "init"]

CdStep == \E name \in CdArgs : Cd(name)

PasswordStep == \E ok \in BOOLEAN : Password(ok)

VOpenStep == \E arg \in FileArgs, temp \in BOOLEAN, text \in BOOLEAN : VOpen(arg, temp, text)

\* navigation over every archive the world may hold
Init == world \in Worlds /\ InitTree

Next ==
    \/ CdStep
    \/ PasswordStep

Spec == Init /\ [][Next]_vars

\* navigation and reads over the unprotected archive
InitRead == world = [catalog |-> "full", protected |-> FALSE, corrupt |-> FALSE] /\ InitTree

NextRead ==
    \/ CdStep
    \/ VOpenStep

SpecRead == InitRead /\ [][NextRead]_vars

\* the objects a caller of the mapping interface holds: the start directory and
\* the children of the current one
ApiHeld == {start} \cup {GetItem(H, current, k) : k \in Keys(H, current)}

\* absorb and set_parent take a DirPath, a child may be any Path
ApiValues(key) == IF key \in {".", ".."} THEN {n \in ApiHeld : IsDir(H, n)} ELSE ApiHeld

SetItemStep == \E key \in ApiKeys : \E value \in ApiValues(key) : SetItemOp(key, value)

DelItemStep == \E key \in ApiKeys : DelItemOp(key)

\* navigation mixed with direct mapping calls on the current directory
InitApi == world = [catalog |-> "sparse", protected |-> FALSE, corrupt |-> FALSE] /\ InitTree

\* a command of the shell, while the heap is below its cap
CdApiStep == Cardinality(DOMAIN nodes) <= MaxNodes /\ CdStep

NextApi ==
    \/ CdApiStep
    \/ SetItemStep
    \/ DelItemStep

SpecApi == InitApi /\ [][NextApi]_vars

(***************************************************************************)
(* The end of the session: nb_shell leaves its loop and runs cleanup.      *)
(***************************************************************************)
\* the positions of Terminal.tempfiles whose os.remove has run and returned: all of
\* them, or those before the first removal that raises (fail, 0 when none does)
RemovedUpTo(h, fail) == 1..(IF fail = 0 THEN Len(h.tempfiles) ELSE fail - 1)

\* os.remove(file) for the files at the positions done
RemoveFiles(h, done) ==
    [h EXCEPT !.tmpfs = [i \in DOMAIN @ |->
                            IF \E k \in done : h.tempfiles[k] = i
                            THEN [@[i] EXCEPT !.exists = FALSE] ELSE @[i]]]

\* Terminal.cleanup: the tracked files are removed in order; an OSError of
\* os.remove is not caught and leaves the method
cleanup(h, fail) ==
    IF fail = 0 THEN RemoveFiles(h, RemovedUpTo(h, fail))
    ELSE [RemoveFiles(h, RemovedUpTo(h, fail)) EXCEPT !.crashed = TRUE, !.err = "OSError"]

\* nb_shell, lines 163-168: 'exit' or an interrupt at the command prompt ends the
\* loop; cleanup runs and 'Exiting...' is printed unless cleanup raised
ExitDone(h, fail) ==
    /\ Commit(h)
    /\ pc' = IF h.crashed THEN "crashed" ELSE "exited"
    /\ lastOp' = [op |-> "exit", fail |-> fail, exiting |-> ~h.crashed]

\* the session ends; the environment picks the removal that fails, if any
Exit(fail) ==
    /\ pc = "shell"
    /\ ExitDone(cleanup(H, fail), fail)
    /\ UNCHANGED <<current, start, world, pending, streams, apiOps>>

ExitStep == \E fail \in 0..Len(tempfiles) : Exit(fail)

\* navigation, reads and the end of the session
InitExit == world = [catalog |-> "full", protected |-> FALSE, corrupt |-> FALSE] /\ InitTree

NextExit ==
    \/ CdStep
    \/ VOpenStep
    \/ ExitStep

SpecExit == InitExit /\ [][NextExit]_vars

(***************************************************************************)
(* Ctrl-C while Terminal.password waits for the password.                  *)
(***************************************************************************)
\* session.prompt raises KeyboardInterrupt inside get_archive_file: neither
\* 'except lzma.LZMAError' nor 'except ArchiveError' catches it, find_children and
\* cd have no handler, and nb_shell calls execute_command outside its try, so the
\* exception leaves nb_shell before cleanup
Interrupt ==
    /\ pc = "password"
    /\ pc' = "crashed"
    /\ pending' = NoPending
    /\ lastError' = "KeyboardInterrupt"
    /\ lastOp' = [op |-> "interrupt", node |-> pending.node, from |-> pending.from,
                  answers |-> pending.answers]
    /\ UNCHANGED <<nodes, dicts, handles, tmpfs, tempfiles, current, start, world,
                   streams, apiOps>>

InterruptStep == Interrupt

\* navigation with password prompts that may be interrupted
InitInterrupt == world \in Worlds /\ InitTree

NextInterrupt ==
    \/ CdStep
    \/ PasswordStep
    \/ InterruptStep

SpecInterrupt == InitInterrupt /\ [][NextInterrupt]_vars

(***************************************************************************)
(* Direct constructor calls: Path.__init__ caches self.get_path().         *)
(***************************************************************************)
\* whether get_path on the node record r raises the UnexpectedSituationWarning
\* of Path.get_path (line 97); DirPath.get_path has no such branch
RECURSIVE get_path_warns(_, _)
get_path_warns(h, r) ==
    IF r.path # NoPath THEN FALSE
    ELSE IF r.kind \in DirKinds
         THEN IF r.parent = None /\ DOMAIN h.dicts[r.children] = {}
              THEN FALSE
              ELSE IF r.parent # None
                   THEN get_path_warns(h, h.nodes[r.parent])
                   ELSE LET first == CHOOSE k \in DOMAIN h.dicts[r.children] : TRUE
                        IN  get_path_warns(h, h.nodes[h.dicts[r.children][first]])
         ELSE IF r.parent = None /\ r.backend = FS
              THEN FALSE
              ELSE IF r.parent = None
                   THEN TRUE
                   ELSE get_path_warns(h, h.nodes[r.parent])

\* the classes constructed directly and the default path_type of each
NewClasses == {"DirPath", "Py7zrArchivePath", "GenericFile"}

DefaultType(cls) ==
    CASE cls = "DirPath" -> "dir"
      [] cls = "Py7zrArchivePath" -> "7z"
      [] OTHER -> "pdf"

\* the backend the constructor stores: Py7zrArchivePath ignores its argument
StoredBackend(cls, backend) == IF cls = "Py7zrArchivePath" THEN PY7ZR ELSE backend

\* cls(name, parent=parent, backend=backend), a direct constructor call; the
\* object is held by the caller only
NewPathOp(cls, name, parent, backend) ==
    /\ pc = "shell"
    /\ apiOps < MaxApiOps
    /\ \E h \in {Construct(H, cls, Rel(name), parent, backend, DefaultType(cls), TRUE)} :
          /\ Commit(h)
          /\ lastOp' = [op |-> "new", cls |-> cls, name |-> name, parent |-> parent,
                        backend |-> StoredBackend(cls, backend), node |-> h.new,
                        warned |-> get_path_warns(WithScratch(H, EmptyMap),
                                            PathFields(cls, Rel(name), parent,
                                                       StoredBackend(cls, backend),
                                                       DefaultType(cls), Scratch))]
    /\ apiOps' = apiOps + 1
    /\ UNCHANGED <<current, start, world, pending, streams, pc>>

NewPathStep ==
    \E cls \in NewClasses : \E name \in {"x", "x.7z"} : \E parent \in {None, current} :
        \E backend \in {FS, PY7ZR} : NewPathOp(cls, name, parent, backend)

\* the directories a caller of add_path holds: the current one and its children
ParentDests == {n \in ApiHeld \cup {current} : IsDir(H, n)}

\* Terminal.add_path(name='..', parent=True, backend=backend, dest=dest), a direct call
AddParentOp(dest, backend) ==
    /\ pc = "shell"
    /\ apiOps < MaxApiOps
    /\ Commit(add_path(H, dest, Rel(".."), TRUE, "", TRUE, backend, TRUE))
    /\ apiOps' = apiOps + 1
    /\ lastOp' = [op |-> "add_parent", dest |-> dest, backend |-> backend,
                  destBackend |-> nodes[dest].backend, parent |-> nodes[dest].parent,
                  children |-> get_children(H, dest), current |-> current]
    /\ UNCHANGED <<current, start, world, pending, streams, pc>>

AddParentStep == \E dest \in ParentDests : \E backend \in {FS, PY7ZR} : AddParentOp(dest, backend)

InitNew == world = [catalog |-> "sparse", protected |-> FALSE, corrupt |-> FALSE] /\ InitTree

CdNewStep == Cardinality(DOMAIN nodes) <= MaxNodes /\ CdStep

NextNew ==
    \/ CdNewStep
    \/ NewPathStep
    \/ AddParentStep

SpecNew == InitNew /\ [][NextNew]_vars

(***************************************************************************)
(* set_type on file objects, constructed with any type.                    *)
(***************************************************************************)
\* the types passed to constructors and to set_type
TypeTags == {"text", "binary", "image", "pdf"}

\* mutant of set_type: Path.set_type for every class
SetTypePlain(h, n, path_type) == [h EXCEPT !.nodes[n].path_type = path_type]

\* Path.set_type, overridden to do nothing by TextFile, BinaryFile and ImageFile
set_type(h, n, path_type) ==
    IF h.nodes[n].kind \in {"TextFile", "BinaryFile", "ImageFile"} THEN h
    ELSE [h EXCEPT !.nodes[n].path_type = path_type]

\* cls(name, parent=current, path_type=path_type), a direct constructor call of a
\* file class
NewFileOp(cls, name, path_type) ==
    /\ pc = "shell"
    /\ apiOps < MaxApiOps
    /\ \E h \in {Construct(H, cls, Rel(name), current, nodes[current].backend, path_type, TRUE)} :
          /\ Commit(h)
          /\ lastOp' = [op |-> "new_file", cls |-> cls, node |-> h.new, given |-> path_type,
                        was |-> h.nodes[h.new].path_type]
    /\ apiOps' = apiOps + 1
    /\ UNCHANGED <<current, start, world, pending, streams, pc>>

NewFileStep ==
    \E cls \in FileKinds : \E path_type \in TypeTags : NewFileOp(cls, "x.dat", path_type)

\* the file objects a caller holds: the files of the current directory and the
\* file it has constructed
HeldFiles ==
    {GetItem(H, current, k) : k \in {k \in Keys(H, current) : ~IsDir(H, GetItem(H, current, k))}}
    \cup (IF lastOp.op \in {"new_file", "set_type"} THEN {lastOp.node} ELSE {})

\* node.set_type(path_type), a direct call
SetTypeOp(n, path_type) ==
    /\ pc = "shell"
    /\ Commit(set_type(H, n, path_type))
    /\ lastOp' = [op |-> "set_type", cls |-> nodes[n].kind, node |-> n, given |-> path_type,
                  was |-> nodes[n].path_type]
    /\ UNCHANGED <<current, start, world, pending, streams, pc, apiOps>>

SetTypeStep == \E n \in HeldFiles : \E path_type \in TypeTags : SetTypeOp(n, path_type)

InitType == world = [catalog |-> "sparse", protected |-> FALSE, corrupt |-> FALSE] /\ InitTree

CdTypeStep == Cardinality(DOMAIN nodes) <= MaxNodes /\ CdStep

NextType ==
    \/ CdTypeStep
    \/ NewFileStep
    \/ SetTypeStep

SpecType == InitType /\ [][NextType]_vars

(***************************************************************************)
(* Path.__eq__ and DirPath.__eq__.  A comparison ends in "T" (True), "F"   *)
(* (False) or "X" (an exception leaves it); where the order in which dict  *)
(* equality visits the keys decides, every possible outcome is kept.       *)
(***************************************************************************)
RECURSIVE Eq(_, _, _, _)

\* self.get_parent() == other.get_parent(): None == None is True; with one None the
\* __eq__ of the other side calls get_name() on None (AttributeError)
ParentEq(h, pa, pb, asked) ==
    IF pa = None /\ pb = None THEN {"T"}
    ELSE IF pa = None \/ pb = None THEN {"X"}
    ELSE Eq(h, pa, pb, asked)

\* the five tests of Path.__eq__, given the outcome p of the parents' comparison;
\* all([...]) evaluates every test, so an exception in one of them leaves __eq__
PathEqOf(h, a, b, p) ==
    IF p = "X" THEN "X"
    ELSE IF /\ h.nodes[a].kind = h.nodes[b].kind
            /\ h.nodes[a].name = h.nodes[b].name
            /\ p = "T"
            /\ h.nodes[a].backend = h.nodes[b].backend
            /\ h.nodes[a].path_type = h.nodes[b].path_type
         THEN "T" ELSE "F"

\* Path.__eq__
PathEq(h, a, b, asked) ==
    {PathEqOf(h, a, b, p) : p \in ParentEq(h, h.nodes[a].parent, h.nodes[b].parent, asked)}

\* the comparison of the values two dicts hold under key k: the same object is equal
\* without a call of __eq__
ValueEq(h, da, db, k, asked) ==
    IF k \notin DOMAIN db THEN {"F"}
    ELSE IF da[k] = db[k] THEN {"T"}
    ELSE Eq(h, da[k], db[k], asked)

\* what ends a dict comparison early: any outcome but True under some key
FirstBad(h, da, db, asked) == UNION {ValueEq(h, da, db, k, asked) \ {"T"} : k \in DOMAIN da}

\* self.children == other.get_children(), dict equality
ChildrenEq(h, da, db, asked) ==
    IF Cardinality(DOMAIN da) # Cardinality(DOMAIN db) THEN {"F"}
    ELSE FirstBad(h, da, db, asked)
         \cup (IF \A k \in DOMAIN da : "T" \in ValueEq(h, da, db, k, asked) THEN {"T"} ELSE {})

\* all([super().__eq__(other), self.children == other.get_children()])
BothEq(s, c) == IF s = "X" \/ c = "X" THEN "X" ELSE IF s = "T" /\ c = "T" THEN "T" ELSE "F"

\* DirPath.__eq__; other.get_children() of a file is an AttributeError
DirEq(h, a, b, asked) ==
    IF ~IsDir(h, b) THEN {"X"}
    ELSE {BothEq(s, c) : s \in PathEq(h, a, b, asked),
                         c \in ChildrenEq(h, get_children(h, a), get_children(h, b), asked)}

\* a == b; asked holds the pairs whose comparison is in progress, and meeting one of
\* them again is the unbounded recursion that ends in RecursionError
Eq(h, a, b, asked) ==
    IF <<a, b>> \in asked THEN {"X"}
    ELSE IF IsDir(h, a) THEN DirEq(h, a, b, asked \cup {<<a, b>>})
    ELSE PathEq(h, a, b, asked \cup {<<a, b>>})

\* the constructor call that repeats kind, name, parent, backend and type of the
\* child k of the current directory
CloneOp(k) ==
    /\ pc = "shell"
    /\ apiOps < MaxApiOps
    /\ \E h \in {Construct(H, nodes[GetItem(H, current, k)].kind, Rel(k), current,
                           nodes[GetItem(H, current, k)].backend,
                           nodes[GetItem(H, current, k)].path_type,
                           nodes[GetItem(H, current, k)].is_anchor)} :
          /\ Commit(h)
          /\ lastOp' = [op |-> "clone", of |-> GetItem(H, current, k), clone |-> h.new]
    /\ apiOps' = apiOps + 1
    /\ UNCHANGED <<current, start, world, pending, streams, pc>>

CloneStep == \E k \in Keys(H, current) : CloneOp(k)

\* the objects a caller compares: the start and current directories, the children
\* of the current one, and the object it has constructed
HeldEq ==
    ApiHeld \cup {current} \cup (IF lastOp.op \in {"clone", "eq"} THEN {lastOp.clone} ELSE {})

\* a == b, a direct comparison
EqOp(a, b, out) ==
    /\ pc = "shell"
    /\ lastOp' = [op |-> "eq", a |-> a, b |-> b, out |-> out, clone |-> lastOp.clone]
    /\ lastError' = IF out = "X" THEN "Exception" ELSE ""
    /\ UNCHANGED <<nodes, dicts, handles, tmpfs, tempfiles, current, start, world, pending,
                   streams, apiOps, pc>>

EqStep ==
    /\ lastOp.op \in {"clone", "eq"}
    /\ \E a \in HeldEq : \E b \in HeldEq : \E out \in Eq(H, a, b, {}) : EqOp(a, b, out)

InitEq == world = [catalog |-> "sparse", protected |-> FALSE, corrupt |-> FALSE] /\ InitTree

CdEqStep == Cardinality(DOMAIN nodes) <= MaxNodes /\ CdStep

NextEq ==
    \/ CdEqStep
    \/ CloneStep
    \/ EqStep

SpecEq == InitEq /\ [][NextEq]_vars

(***************************************************************************)
(* Properties.                                                             *)
(***************************************************************************)
ArchiveNodes == {n \in DOMAIN nodes : IsArchive(H, n)}

\* the nearest ancestor of n that is an anchor, None when there is none
RECURSIVE NearestAnchorAncestor(_)
NearestAnchorAncestor(n) ==
    LET p == nodes[n].parent
    IN  IF p = None \/ p \notin DOMAIN nodes \/ ~IsArchive(H, p) THEN None
        ELSE IF nodes[p].is_anchor THEN p
        ELSE NearestAnchorAncestor(p)

\* the archive behind the handle node n uses
ArchOf(n) == handles[nodes[n].archive_file].arch

\* the folder of the container that node n stands for: its path below its anchor
InternalDir(n) ==
    LET a == IF nodes[n].is_anchor THEN n ELSE NearestAnchorAncestor(n)
    IN  SubSeq(nodes[n].path, Len(nodes[a].path) + 1, Len(nodes[n].path))

\* the filenames an archive lists
Listed(arch) == {FilesOf(arch)[i].filename : i \in 1..Len(FilesOf(arch))}

FileAt(arch, fn) == FilesOf(arch)[CHOOSE i \in 1..Len(FilesOf(arch)) : FilesOf(arch)[i].filename = fn]

\* find_children has just run on a node with a handle
Populated == lastOp.op \in {"cd", "open"} /\ lastOp.pop.node # None

\* C1: an anchor's get_anchor() is its own get_path(); a non-anchor's get_anchor() is
\* the get_path() of its nearest anchor ancestor, at any depth
C1_AnchorResolution ==
    \A n \in ArchiveNodes :
        IF nodes[n].is_anchor
        THEN GetAnchor(H, n) = GetPath(H, n)
        ELSE /\ NearestAnchorAncestor(n) # None
             /\ GetAnchor(H, n) = GetPath(H, NearestAnchorAncestor(n))

\* a non-anchor two levels below its anchor, and a non-anchor below a nested anchor
C1_Witness ==
    /\ \E n \in ArchiveNodes :
          /\ ~nodes[n].is_anchor
          /\ ~nodes[nodes[n].parent].is_anchor
    /\ \E n \in ArchiveNodes :
          /\ ~nodes[n].is_anchor
          /\ IsArchive(H, nodes[NearestAnchorAncestor(n)].parent)

\* the node for the folder a of the archive /data/archive.7z has just been populated
AtFolderA ==
    /\ Populated
    /\ nodes[lastOp.pop.node].path = <<"data", "archive.7z", "a">>

\* the children of the populated node are exactly b.txt, a file, and c, a directory
ExactlyBAndC ==
    LET n == lastOp.pop.node
    IN  /\ Keys(H, n) = {"b.txt", "c"}
        /\ nodes[GetItem(H, n, "b.txt")].kind \in FileKinds
        /\ nodes[GetItem(H, n, "c")].kind \in DirKinds
        /\ "d.txt" \notin Keys(H, n)

\* C2: whenever the archive holds the entries a/b.txt and a/c/d.txt, the node at a
\* holds exactly b.txt (a file) and c (a directory) after find_children, and not d.txt
C2_FilterExample ==
    (AtFolderA /\ {<<"a", "b.txt">>, <<"a", "c", "d.txt">>} \subseteq Listed("outer"))
        => ExactlyBAndC

\* the archive has no entry for the folder a/c: the node at a was populated and
\* holds b.txt alone
C2_Witness ==
    /\ AtFolderA
    /\ {<<"a", "b.txt">>, <<"a", "c", "d.txt">>} \subseteq Listed("outer")
    /\ <<"a", "c">> \notin Listed("outer")
    /\ ~lastOp.pop.again
    /\ Keys(H, lastOp.pop.node) = {"b.txt"}

\* C3: find_children registers an entry under node N iff the entry's folder inside
\* the container is the folder N stands for and N has no child of that basename yet;
\* nothing else is added and no child is changed
C3_FilterRule ==
    Populated =>
        LET n == lastOp.pop.node
            before == lastOp.pop.before
            want == {fn \in Listed(ArchOf(n)) :
                        /\ DirName(fn) = InternalDir(n)
                        /\ BaseName(fn) \notin DOMAIN before}
        IN  /\ lastOp.pop.selected = want
            /\ Keys(H, n) = DOMAIN before \cup {BaseName(fn) : fn \in want}
            /\ \A k \in DOMAIN before : GetItem(H, n, k) = before[k]
            /\ \A fn \in want :
                  /\ nodes[GetItem(H, n, BaseName(fn))].parent = n
                  /\ nodes[GetItem(H, n, BaseName(fn))].name = BaseName(fn)

\* a first listing that takes some entries of the container and leaves deeper ones
C3_Witness ==
    /\ Populated
    /\ lastOp.pop.selected # {}
    /\ InternalDir(lastOp.pop.node) # << >>
    /\ \E fn \in Listed(ArchOf(lastOp.pop.node)) :
          /\ Len(fn) > Len(InternalDir(lastOp.pop.node)) + 1
          /\ SubSeq(fn, 1, Len(InternalDir(lastOp.pop.node))) = InternalDir(lastOp.pop.node)

\* C4: find_children on a node that was populated before leaves its children dict
\* as it was: no key added, none removed, no child replaced
C4_PopulateIdempotent ==
    (Populated /\ lastOp.pop.again)
        => get_children(H, lastOp.pop.node) = lastOp.pop.before

C4_Witness ==
    /\ Populated
    /\ lastOp.pop.again
    /\ DOMAIN lastOp.pop.before # {}

\* C5: one open attempt prompts at most PasswordTries = 3 times; wrong, wrong, right
\* yields a handle; three wrong answers end the attempt without a handle, with
\* "Incorrect password." reported and no further prompt
C5_PasswordRetry ==
    /\ pc = "password" => Len(pending.answers) < 3
    /\ lastOp.op = "open" =>
          /\ Len(lastOp.answers) <= 3
          /\ lastOp.answers = <<FALSE, FALSE, TRUE>> =>
                /\ lastOp.done
                /\ lastOp.result # NoHandle
                /\ nodes[lastOp.node].archive_file = lastOp.result
                /\ pc = "shell"
          /\ lastOp.answers = <<FALSE, FALSE, FALSE>> =>
                /\ lastOp.done
                /\ lastOp.result = NoHandle
                /\ nodes[lastOp.node].archive_file = NoHandle
                /\ lastError = "Incorrect password."
                /\ pc = "shell"

C5_Witness ==
    /\ lastOp.op = "open"
    /\ lastOp.answers = <<FALSE, FALSE, TRUE>>
    /\ Keys(H, lastOp.node) # {}

\* C6: when the move into a protected container ends after three wrong passwords,
\* the current directory is the one the cd started from and the session runs on
C6_FailedCdKeepsCurrent ==
    (lastOp.op = "open" /\ lastOp.done /\ lastOp.result = NoHandle)
        => (current = lastOp.from /\ pc = "shell")

\* three wrong passwords were given for /data/archive.7z: the session runs on, in
\* the archive, which shows no children
C6_Witness ==
    /\ lastOp.op = "open"
    /\ lastOp.answers = <<FALSE, FALSE, FALSE>>
    /\ lastOp.done
    /\ pc = "shell"
    /\ current = lastOp.node
    /\ current # lastOp.from
    /\ Keys(H, current) = {}

\* C7: v_open(f) on directory D asks the container for the entry at D's folder
\* joined with f and returns that entry's bytes
C7_ReadResolvesEntry ==
    lastOp.op = "v_open" =>
        LET d == lastOp.node
            internal == InternalDir(d) \o lastOp.arg.segs
        IN  /\ pc = "shell"
            /\ internal \in Listed(ArchOf(d))
            /\ lastOp.miss => lastOp.extract = internal
            /\ lastOp.data = IF lastOp.text /\ ~lastOp.temp
                             THEN [str |-> FileAt(ArchOf(d), internal).data]
                             ELSE FileAt(ArchOf(d), internal).data
            /\ nodes[d].child_data[lastOp.arg] = FileAt(ArchOf(d), internal).data

\* b.txt read in the folder a of /data/archive.7z: the bytes stored at a/b.txt
C7_Witness ==
    /\ lastOp.op = "v_open"
    /\ lastOp.miss
    /\ nodes[lastOp.node].anchor = <<"data", "archive.7z">>
    /\ nodes[lastOp.node].path = <<"data", "archive.7z", "a">>
    /\ lastOp.arg = Rel("b.txt")
    /\ lastOp.extract = <<"a", "b.txt">>
    /\ lastOp.data = <<1, 2>>

\* C8: every temp file v_open wrote for an entry holds the bytes of every binary
\* stream v_open returned for the same entry
C8_TempEqualsStream ==
    \A i \in 1..Len(tmpfs) : \A st \in streams :
        (tmpfs[i].node = st.node /\ tmpfs[i].arg = st.arg) => tmpfs[i].data = st.data

\* an entry that was read as a stream once and as a temp file twice
C8_Witness ==
    \E st \in streams :
        /\ Len(st.data) > 0
        /\ Cardinality({i \in 1..Len(tmpfs) : tmpfs[i].node = st.node /\ tmpfs[i].arg = st.arg}) >= 2

DirNodes == {n \in DOMAIN nodes : IsDir(H, n)}

\* C9: after D[n] = x with n neither '.' nor '..', D[n] is x and n is among the
\* keys iter(D) yields
C9_SetThenGet ==
    (lastOp.op = "set" /\ lastOp.key \notin {".", ".."})
        => /\ GetItem(H, lastOp.node, lastOp.key) = lastOp.value
           /\ lastOp.key \in Iterate(H, lastOp.node)

\* a set that replaced the child stored under a key by another node, whose name
\* is not the key
C9_Witness ==
    /\ lastOp.op = "set"
    /\ lastOp.key \notin {".", ".."}
    /\ lastOp.old \notin {None, lastOp.value}
    /\ nodes[lastOp.value].name # lastOp.key

\* C10: D['.'] is D and D['..'] is D's parent reference, whatever the children are;
\* after D['..'] = x the parent reference is x
C10_ReservedKeys ==
    /\ \A d \in DirNodes :
          /\ GetItem(H, d, ".") = d
          /\ GetItem(H, d, "..") = nodes[d].parent
    /\ (lastOp.op = "set" /\ lastOp.key = "..")
          => GetItem(H, lastOp.node, "..") = lastOp.value

\* a parentless directory that has just lost a child, beside a directory that
\* has a parent and children
C10_Witness ==
    /\ lastOp.op = "del"
    /\ lastError = ""
    /\ nodes[lastOp.node].parent = None
    /\ \E d \in DirNodes : nodes[d].parent # None /\ Keys(H, d) # {}

\* C11: no children dict ever holds the key '.' or '..', so that len(), iter() and
\* `in` never count or report one, and a set of a reserved key leaves every
\* children dict as it was
C11_NoReservedChildKey ==
    /\ [](\A d \in DirNodes :
            /\ Keys(H, d) \cap {".", ".."} = {}
            /\ Iterate(H, d) \cap {".", ".."} = {}
            /\ Size(H, d) = Cardinality(Keys(H, d) \ {".", ".."})
            /\ ~Contains(H, d, ".") /\ ~Contains(H, d, ".."))
    /\ [][(apiOps' = apiOps + 1 /\ lastOp'.op = "set" /\ lastOp'.key \in {".", ".."})
            => dicts' = dicts]_vars

\* a reserved key was set on a directory that has children, or the shell has made
\* a parent for a directory through the key '..'
C11_Witness ==
    \/ /\ lastOp.op = "set"
       /\ lastOp.key \in {".", ".."}
       /\ Size(H, lastOp.node) > 0
    \/ /\ lastOp.op = "cd"
       /\ lastOp.name = ".."
       /\ apiOps = 1
       /\ current # lastOp.from

\* C12: after D['.'] = node the name, parent, backend and type of D are those of node
C12_AbsorbIdentity ==
    (lastOp.op = "set" /\ lastOp.key = ".")
        => /\ nodes[lastOp.node].name = nodes[lastOp.value].name
           /\ nodes[lastOp.node].parent = nodes[lastOp.value].parent
           /\ nodes[lastOp.node].backend = nodes[lastOp.value].backend
           /\ nodes[lastOp.node].path_type = nodes[lastOp.value].path_type

\* a directory has absorbed another one: name, parent and type were taken over, the
\* backend of the directory is the other's path string and not the other's backend
C12_Witness ==
    /\ lastOp.op = "set"
    /\ lastOp.key = "."
    /\ lastOp.value # lastOp.node
    /\ nodes[lastOp.node].name = nodes[lastOp.value].name
    /\ nodes[lastOp.node].parent = nodes[lastOp.value].parent
    /\ nodes[lastOp.node].path_type = nodes[lastOp.value].path_type
    /\ nodes[lastOp.node].backend = PathStr(GetPath(H, lastOp.value))
    /\ nodes[lastOp.node].backend # nodes[lastOp.value].backend

\* C13: get_path on a node with a non-filesystem backend and no parent (a directory:
\* no parent and no children) raises the internal-consistency warning and falls back
\* to the bare name; it never returns a path derived from the working directory
C13_RootlessBackendPath ==
    (lastOp.op = "new" /\ lastOp.parent = None /\ lastOp.backend # FS)
        => /\ lastOp.warned
           /\ nodes[lastOp.node].path = <<"<rel>", lastOp.name>>
           /\ pc = "shell"

\* a 7z directory constructed with no parent: its path is the working directory
\* joined with its name and nothing was reported
C13_Witness ==
    /\ lastOp.op = "new" /\ lastOp.cls = "Py7zrArchivePath" /\ lastOp.parent = None
    /\ nodes[lastOp.node].backend = PY7ZR
    /\ Keys(H, lastOp.node) = {}
    /\ ~lastOp.warned
    /\ nodes[lastOp.node].path = StartPath \o <<lastOp.name>>

\* a node and its ancestors, up to the root of the tree
RECURSIVE UpChain(_)
UpChain(n) ==
    IF n = None \/ n \notin DOMAIN nodes THEN {} ELSE {n} \cup UpChain(nodes[n].parent)

\* the anchors met on the way up from n that stand for the container n belongs to
AnchorsFor(n) ==
    {a \in UpChain(n) \cap ArchiveNodes :
        nodes[a].is_anchor /\ nodes[a].path = GetAnchor(H, n)}

\* the entry of its parent's container that the archive node n was registered for
EntryOf(n) ==
    FileAt(ArchOf(nodes[n].parent),
           SubSeq(nodes[n].path, Len(GetAnchor(H, nodes[n].parent)) + 1, Len(nodes[n].path)))

\* C14: walking up from any archive directory meets exactly one anchor of its
\* container; a non-anchor has an archive directory of the same container as parent;
\* a container file (on the filesystem or inside a container) is an anchor, an
\* internal folder is a non-anchor
C14_OneAnchorPerContainer ==
    \A n \in ArchiveNodes :
        /\ Cardinality(AnchorsFor(n)) = 1
        /\ ~nodes[n].is_anchor
              => /\ nodes[n].parent \in ArchiveNodes
                 /\ GetAnchor(H, nodes[n].parent) = GetAnchor(H, n)
        /\ IF nodes[n].parent \in ArchiveNodes
           THEN nodes[n].is_anchor <=> EntryOf(n).folder # "None"
           ELSE nodes[n].is_anchor

\* the folder a of the nested container inner.7z is registered: two anchors lie on
\* the way up from it, one of them for its container
C14_Witness ==
    \E n \in ArchiveNodes :
        /\ ~nodes[n].is_anchor
        /\ Cardinality({a \in UpChain(n) \cap ArchiveNodes : nodes[a].is_anchor}) = 2
        /\ nodes[NearestAnchorAncestor(n)].parent \in ArchiveNodes
        /\ nodes[n].path = <<"data", "archive.7z", "inner.7z", "a">>

\* the SevenZipFile objects opened on the container arch
HandlesOf(arch) == {i \in DOMAIN handles : handles[i].arch = arch}

\* C15: a container is opened successfully at most once in a session; the anchor and
\* every descendant that holds a handle hold that one, and no password is asked for a
\* container that has been opened
C15_OpenedOnce ==
    /\ \A i, j \in DOMAIN handles : handles[i].arch = handles[j].arch => i = j
    /\ \A n \in ArchiveNodes :
          nodes[n].archive_file # NoHandle
              => \A a \in AnchorsFor(n) : nodes[a].archive_file = nodes[n].archive_file
    /\ pc = "password" => HandlesOf(pending.arch) = {}

\* the password-protected archive was opened once and a folder two levels below its
\* anchor has been populated through the handle of the anchor
C15_Witness ==
    /\ world.protected
    /\ Len(handles) = 1
    /\ Populated
    /\ ~nodes[lastOp.pop.node].is_anchor
    /\ ~nodes[nodes[lastOp.pop.node].parent].is_anchor
    /\ nodes[lastOp.pop.node].archive_file = 1
    /\ \A a \in AnchorsFor(lastOp.pop.node) : nodes[a].archive_file = 1

\* the temp files that are still on disk
Remaining == {i \in DOMAIN tmpfs : tmpfs[i].exists}

C17_RemovalFailureNotFatal ==
    (lastOp.op = "exit" /\ lastOp.fail # 0)
        => /\ lastError # ""
           /\ pc = "exited"
           /\ lastOp.exiting
           /\ \A k \in DOMAIN tempfiles : k # lastOp.fail => tempfiles[k] \notin Remaining

\* the removal of the first of two tracked files failed: the second is still on
\* disk and the session ended in the exception
C17_Witness ==
    /\ lastOp.op = "exit" /\ lastOp.fail = 1
    /\ Len(tempfiles) = 2
    /\ tempfiles[2] \in Remaining
    /\ ~lastOp.exiting
    /\ pc = "crashed"

\* C18: an interrupt during the password prompt aborts the current command only: the
\* session is back at its command prompt and takes further commands
C18_InterruptAbortsCommandOnly ==
    lastOp.op = "interrupt" => (pc = "shell" /\ pending = NoPending)

\* Ctrl-C at the second password prompt of cd archive.7z: the exception has left
\* nb_shell, with the archive as current directory and no handle opened
C18_Witness ==
    /\ lastOp.op = "interrupt"
    /\ Len(lastOp.answers) = 1
    /\ pc = "crashed"
    /\ current = lastOp.node
    /\ current # lastOp.from
    /\ handles = << >>

\* the last command was cd archive.7z from /data, which has the container opened
EnteredArchive ==
    /\ lastOp.op = "cd" /\ lastOp.name = "archive.7z"
    /\ current # lastOp.from
    /\ nodes[current].path = <<"data", "archive.7z">>

\* C19: when py7zr rejects the container as malformed, 'Decompression error' with
\* the message of the exception is reported, no exception leaves the command, the
\* node has no handle and no children, and the session is at its prompt again
C19_FormatErrorReported ==
    (EnteredArchive /\ IsCorrupt("outer"))
        => /\ lastError = "Decompression error: not a 7z file"
           /\ pc = "shell"
           /\ nodes[current].archive_file = NoHandle
           /\ Keys(H, current) = {}
           /\ handles = << >>

\* the malformed archive was entered after the root directory was listed: the
\* error is reported and the node is empty
C19_Witness ==
    /\ EnteredArchive /\ IsCorrupt("outer")
    /\ lastError = "Decompression error: not a 7z file"
    /\ pc = "shell"
    /\ Keys(H, current) = {}
    /\ Cardinality(DOMAIN nodes) >= 4

\* C20: add_path with parent=True on a destination whose backend is not the
\* filesystem raises UnsupportedOperationWarning and changes nothing: the parent and
\* the children of the destination and the current directory stay as they were
C20_ParentAboveBackendNode ==
    (lastOp.op = "add_parent" /\ lastOp.destBackend # FS)
        => /\ lastError = "UnsupportedOperationWarning"
           /\ nodes[lastOp.dest].parent = lastOp.parent
           /\ get_children(H, lastOp.dest) = lastOp.children
           /\ current = lastOp.current

\* add_path(name='..', parent=True) with the default backend 'fs' on the node of
\* archive.7z: no warning, and a new DirPath has replaced /data as its parent
C20_Witness ==
    /\ lastOp.op = "add_parent" /\ lastOp.destBackend = PY7ZR /\ lastOp.backend = FS
    /\ lastError = ""
    /\ nodes[lastOp.dest].parent # lastOp.parent
    /\ nodes[lastOp.dest].parent \notin {None, start}
    /\ get_children(H, nodes[lastOp.dest].parent) = ("archive.7z" :> lastOp.dest)

\* the type each pinned file class stands for
PinnedTag(kind) ==
    CASE kind = "TextFile" -> "text"
      [] kind = "BinaryFile" -> "binary"
      [] kind = "ImageFile" -> "image"

\* C21: a TextFile, BinaryFile or ImageFile has the type 'text', 'binary', 'image'
\* from its construction on, whatever type was passed, and keeps it under set_type
C21_PinnedType ==
    \A n \in DOMAIN nodes :
        nodes[n].kind \in {"TextFile", "BinaryFile", "ImageFile"}
            => nodes[n].path_type = PinnedTag(nodes[n].kind)

\* set_type('binary') was called on an ImageFile that a caller constructed: it is
\* still an image
C21_Witness ==
    /\ lastOp.op = "set_type" /\ lastOp.cls = "ImageFile" /\ lastOp.given = "binary"
    /\ apiOps = 1
    /\ lastOp.node \notin {GetItem(H, current, k) : k \in Keys(H, current)}
    /\ nodes[lastOp.node].path_type = "image"

\* the equality the five attributes define: same class, name, backend and type, and
\* parents that are both None or equal in the same sense
RECURSIVE SameFive(_, _)
SameFive(a, b) ==
    /\ nodes[a].kind = nodes[b].kind
    /\ nodes[a].name = nodes[b].name
    /\ nodes[a].backend = nodes[b].backend
    /\ nodes[a].path_type = nodes[b].path_type
    /\ IF nodes[a].parent = None \/ nodes[b].parent = None
       THEN nodes[a].parent = nodes[b].parent
       ELSE SameFive(nodes[a].parent, nodes[b].parent)

\* C22: a == b is True exactly when a and b have the same class, name, backend and
\* type and equal parents; nothing else decides the result
C22_StructuralEquality ==
    lastOp.op = "eq" => (lastOp.out = "T" <=> SameFive(lastOp.a, lastOp.b))

\* the node of archive.7z, which holds the folder a since it was entered, compared
\* with a new object of the same class, name, parent, backend and type: False
C22_Witness ==
    /\ lastOp.op = "eq" /\ lastOp.out = "F"
    /\ lastOp.b = lastOp.clone /\ lastOp.a # lastOp.clone
    /\ SameFive(lastOp.a, lastOp.b)
    /\ nodes[lastOp.a].parent = nodes[lastOp.b].parent
    /\ Keys(H, lastOp.a) # {} /\ Keys(H, lastOp.b) = {}

\* C23: cd without argument makes the start directory the current one, from any
\* state of the navigator, and changes no node, children dict or handle
C23_CdHome ==
    /\ [](start = Id(StartPath, 0))
    /\ []((lastOp.op = "cd" /\ lastOp.name = "") => (current = start /\ pc = "shell"))
    /\ [][(lastOp'.op = "cd" /\ lastOp'.name = "")
            => (nodes' = nodes /\ dicts' = dicts /\ handles' = handles)]_vars

\* cd without argument from a folder inside the container, after a parent was made
\* above the start directory
C23_Witness ==
    /\ lastOp.op = "cd" /\ lastOp.name = ""
    /\ IsArchive(H, lastOp.from) /\ ~nodes[lastOp.from].is_anchor
    /\ nodes[start].parent # None
    /\ current = start

\* the message a cd of name must give in the current state, "" when it must not fail
CdFailure(name) ==
    IF name = "" THEN ""
    ELSE IF Contains(H, current, name)
    THEN IF IsDir(H, GetItem(H, current, name)) THEN "" ELSE "The given path is not a directory."
    ELSE IF name = "." THEN ""
    ELSE IF name = ".."
    THEN IF GetPath(H, current) = <<>> THEN "You are at the filesystem root." ELSE ""
    ELSE "The given path was not found."

\* C24: a cd of a name that is no child (and not '.' or '..'), of a child that is no
\* directory, or of '..' at the filesystem root reports its error and leaves the
\* current directory and the whole tree as they were; the session is at its prompt
C24_FailingCd ==
    [][(lastOp'.op = "cd" /\ CdFailure(lastOp'.name) # "")
         => /\ lastError' = CdFailure(lastOp'.name)
            /\ current' = current
            /\ nodes' = nodes /\ dicts' = dicts /\ handles' = handles
            /\ pc' = "shell"]_vars

\* cd .. was refused at the filesystem root
C24_Witness ==
    /\ lastOp.op = "cd" /\ lastOp.name = ".."
    /\ lastError = "You are at the filesystem root."
    /\ nodes[current].path = <<>>
    /\ current = lastOp.from
    /\ pc = "shell"

\* the handle node n holds after a step, NoHandle for a node that does not exist
HandleOf(ns, n) == IF n \in DOMAIN ns THEN ns[n].archive_file ELSE NoHandle

\* C25: a container is opened lazily.  Listing a directory registers its archive
\* children without opening them or asking for a password: a step opens a container,
\* reads the bytes of a nested one or prompts only for the node it moves into
C25_LazyOpen ==
    /\ [](lastOp.op = "init" => (handles = << >> /\ pc = "shell"))
    /\ [][/\ \A n \in DOMAIN nodes' :
                (n # current' /\ nodes'[n].kind = "Py7zrArchivePath")
                    => nodes'[n].archive_file = HandleOf(nodes, n)
          /\ Len(handles') > Len(handles)
                => (nodes'[current'].is_anchor /\ nodes'[current'].archive_file = Len(handles'))
          /\ (pc' = "password" /\ pc = "shell")
                => (pending'.node = current' /\ pending'.anchor = current')]_vars

\* archive.7z has just been entered and populated: the nested container inner.7z
\* is registered under it, unopened, and none of its bytes have been read
C25_Witness ==
    /\ Populated /\ lastOp.op = "cd"
    /\ Len(handles) = 1
    /\ Contains(H, current, "inner.7z")
    /\ nodes[GetItem(H, current, "inner.7z")].kind = "Py7zrArchivePath"
    /\ nodes[GetItem(H, current, "inner.7z")].archive_file = NoHandle
    /\ nodes[current].child_data = EmptyMap

\* the cache entries filled through handle hid: <<node, requested path>>
CacheEntries(hid) ==
    UNION {{<<n, arg>> : arg \in DOMAIN nodes[n].child_data} :
              n \in {m \in ArchiveNodes : nodes[m].archive_file = hid}}

\* what v_open returns for the cached bytes: the content of the temp file, of the
\* text stream, or of the binary stream
Served(bytes, temp, text) ==
    IF temp THEN bytes ELSE IF text THEN [str |-> bytes] ELSE bytes

\* C26: for one archive node and one requested path the handle is read at most
\* once: a handle has been read exactly once per cache entry filled through it, a
\* v_open of a cached path leaves the handles alone and returns the cached bytes,
\* and no cache entry is ever removed or changed
C26_ReadOncePerPath ==
    /\ [](\A hid \in DOMAIN handles : handles[hid].nreads = Cardinality(CacheEntries(hid)))
    /\ [][\A n \in DOMAIN nodes : \A arg \in DOMAIN nodes[n].child_data :
             /\ n \in DOMAIN nodes'
             /\ arg \in DOMAIN nodes'[n].child_data
             /\ nodes'[n].child_data[arg] = nodes[n].child_data[arg]]_vars
    /\ [][(lastOp'.op = "v_open" /\ ~lastOp'.miss)
             => /\ handles' = handles
                /\ lastOp'.data = Served(nodes[lastOp'.node].child_data[lastOp'.arg],
                                         lastOp'.temp, lastOp'.text)]_vars

\* a text read of a path that was read into a temp file before: served from the
\* cache, the handle has still been read once
C26_Witness ==
    /\ lastOp.op = "v_open" /\ ~lastOp.miss /\ lastOp.text /\ ~lastOp.temp
    /\ \E i \in DOMAIN tmpfs : tmpfs[i].node = lastOp.node /\ tmpfs[i].arg = lastOp.arg
    /\ handles[nodes[lastOp.node].archive_file].nreads = 1
    /\ lastOp.data = [str |-> nodes[lastOp.node].child_data[lastOp.arg]]

\* C27: every read of an entry through a handle is followed by reset() before v_open
\* returns: no handle is left unreset between two operations, and each read starts
\* on a reset handle, whichever node sharing the handle asks for it
C27_ResetAfterRead ==
    /\ [](\A hid \in DOMAIN handles : ~handles[hid].dirty)
    /\ [][\A hid \in DOMAIN handles :
             handles'[hid].nreads # handles[hid].nreads
                 => /\ ~handles[hid].dirty /\ ~handles'[hid].dirty
                    /\ handles'[hid].nreads = handles[hid].nreads + 1]_vars

\* one handle was read twice, for two nodes that share it, and is reset
C27_Witness ==
    \E hid \in DOMAIN handles :
        /\ handles[hid].nreads = 2
        /\ ~handles[hid].dirty
        /\ Cardinality({e[1] : e \in CacheEntries(hid)}) = 2
        /\ lastOp.op = "v_open" /\ lastOp.miss /\ nodes[lastOp.node].archive_file = hid
        /\ lastOp.data # << >>

\* the anchors that hold an opened container
OpenAnchors == {n \in ArchiveNodes : nodes[n].is_anchor /\ nodes[n].archive_file # NoHandle}

\* C28: an anchor under a filesystem directory is opened by its filesystem path; an
\* anchor under an archive directory is opened from the bytes its parent's v_open
\* gives for its name, and a read below it asks for the path relative to the inner
\* anchor and gets the bytes of the inner container's entry
C28_NestedOpen ==
    /\ \A n \in OpenAnchors :
          IF nodes[nodes[n].parent].backend = FS
          THEN ArchOf(n) = ArchiveAtPath(nodes[n].path)
          ELSE /\ Rel(nodes[n].name) \in DOMAIN nodes[nodes[n].parent].child_data
               /\ nodes[nodes[n].parent].child_data[Rel(nodes[n].name)] = EntryOf(n).data
               /\ ArchOf(n) = ArchiveOfBytes(EntryOf(n).data)
    /\ (lastOp.op = "cd" /\ current # lastOp.from /\ IsArchive(H, current)
            /\ nodes[current].is_anchor)
          => current \in OpenAnchors
    /\ (lastOp.op = "v_open" /\ lastOp.miss)
          => /\ lastOp.extract = InternalDir(lastOp.node) \o lastOp.arg.segs
             /\ lastOp.data = Served(FileAt(ArchOf(lastOp.node), lastOp.extract).data,
                                     lastOp.temp, lastOp.text)

\* a/b.txt of inner.7z, itself an entry of archive.7z, was read: the bytes are those
\* of the inner container, not those of a/b.txt in the outer one
C28_Witness ==
    /\ lastOp.op = "v_open" /\ lastOp.miss /\ ~lastOp.temp /\ ~lastOp.text
    /\ nodes[lastOp.node].path = <<"data", "archive.7z", "inner.7z", "a">>
    /\ lastOp.extract = <<"a", "b.txt">>
    /\ ArchOf(lastOp.node) = "inner"
    /\ lastOp.data = FileAt("inner", <<"a", "b.txt">>).data
    /\ lastOp.data # FileAt("outer", <<"a", "b.txt">>).data
    /\ Cardinality(OpenAnchors) = 2

\* C29: in every state reached by navigation, a node stored in the children of a
\* directory D under key k has the name k and D itself as parent
C29_ChildNameAndParent ==
    \A d \in DirNodes : \A k \in Keys(H, d) :
        /\ nodes[GetItem(H, d, k)].name = k
        /\ nodes[GetItem(H, d, k)].parent = d

\* '/' was synthesized above the start directory and listed, and a folder of the
\* nested container has been populated
C29_Witness ==
    /\ nodes[start].parent # None
    /\ Keys(H, nodes[start].parent) = {"data", "readme.txt"}
    /\ GetItem(H, nodes[start].parent, "data") = start
    /\ \E d \in DirNodes :
          /\ nodes[d].path = <<"data", "archive.7z", "inner.7z", "a">>
          /\ Keys(H, d) = {"b.txt"}

\* C30: in every state reached by navigation, the path of a node that has a parent
\* is its parent's path joined with its name, although each path is computed once,
\* when the node is constructed
C30_PathIsParentJoinName ==
    \A n \in DOMAIN nodes :
        nodes[n].parent # None
            => /\ nodes[n].path # NoPath
               /\ GetPath(H, n) = Join(GetPath(H, nodes[n].parent), Rel(nodes[n].name))

\* the start directory got its parent from cd '..' after its own path was cached
C30_Witness ==
    /\ nodes[start].parent # None
    /\ nodes[nodes[start].parent].path = <<>>
    /\ nodes[start].path = <<"data">>
    /\ lastOp.op = "cd" /\ lastOp.name = ".." /\ lastOp.from = start
    /\ current = nodes[start].parent

\* C31: no step of the navigator replaces or removes a registered child: every name
\* of every children dict keeps its node, and every node keeps its children dict,
\* its handle once it has one, and the entries of its read cache
C31_ChildrenSurvive ==
    [][/\ \A d \in DOMAIN dicts : \A k \in DOMAIN dicts[d] :
             /\ d \in DOMAIN dicts'
             /\ k \in DOMAIN dicts'[d]
             /\ dicts'[d][k] = dicts[d][k]
       /\ \A n \in DOMAIN nodes :
             /\ n \in DOMAIN nodes'
             /\ nodes'[n].children = nodes[n].children
             /\ nodes[n].archive_file # NoHandle
                   => nodes'[n].archive_file = nodes[n].archive_file
             /\ \A arg \in DOMAIN nodes[n].child_data :
                   /\ arg \in DOMAIN nodes'[n].child_data
                   /\ nodes'[n].child_data[arg] = nodes[n].child_data[arg]]_vars

\* archive.7z was entered again after its folder a had been populated and read
\* from: nothing was added, and a still has its handle, its child and its cache
C31_Witness ==
    /\ Populated /\ lastOp.op = "cd" /\ lastOp.name = "archive.7z"
    /\ lastOp.pop.again
    /\ get_children(H, current) = lastOp.pop.before
    /\ Contains(H, current, "a")
    /\ nodes[GetItem(H, current, "a")].archive_file # NoHandle
    /\ Keys(H, GetItem(H, current, "a")) # {}
    /\ nodes[GetItem(H, current, "a")].child_data # EmptyMap

\* the last step ended an open attempt without a handle: three wrong passwords, or
\* a container py7zr rejects
OpenFailed ==
    \/ lastOp.op = "open" /\ lastOp.done /\ lastOp.result = NoHandle
    \/ EnteredArchive /\ IsCorrupt("outer")

\* the anchor a cd of name moves into while it holds no handle, None when the cd does
\* not move into such a node
UnopenedTarget(name) ==
    IF name \in {"", ".", ".."} \/ ~Contains(H, current, name) THEN None
    ELSE IF /\ IsArchive(H, GetItem(H, current, name))
            /\ nodes[GetItem(H, current, name)].is_anchor
            /\ nodes[GetItem(H, current, name)].archive_file = NoHandle
         THEN GetItem(H, current, name) ELSE None

\* C32: a failed open is not remembered.  After it the node has no handle and no
\* children and the heap is as it was before the attempt; every move into an anchor
\* without a handle, also one that was left after a failed attempt, starts a new
\* attempt: a protected container prompts again from the first of its 3 prompts, a
\* malformed one reports its error again
C32_FailedOpenNotMemoized ==
    /\ [](pc = "password" => Len(pending.answers) < PasswordTries)
    /\ [](OpenFailed => /\ nodes[current].archive_file = NoHandle
                        /\ Keys(H, current) = {}
                        /\ HandlesOf("outer") = {}
                        /\ pc = "shell")
    /\ [][(pc' = "password" \/ (lastOp'.op = "open" /\ lastOp'.result = NoHandle))
             => (nodes' = nodes /\ dicts' = dicts /\ handles' = handles)]_vars
    /\ [][(lastOp'.op = "cd" /\ UnopenedTarget(lastOp'.name) # None
              /\ nodes[UnopenedTarget(lastOp'.name)].path = <<"data", "archive.7z">>)
             => /\ current' = UnopenedTarget(lastOp'.name)
                /\ IsProtected("outer")
                      => /\ pc' = "password"
                         /\ pending'.node = current'
                         /\ pending'.answers = << >>
                /\ IsCorrupt("outer")
                      => /\ pc' = "shell"
                         /\ lastError' = "Decompression error: not a 7z file"
                         /\ nodes' = nodes]_vars

\* three wrong passwords ended an attempt that was made after '/' had been listed:
\* the archive has no handle and no children, and nothing was opened
C32_Witness ==
    /\ lastOp.op = "open" /\ lastOp.done
    /\ lastOp.answers = <<FALSE, FALSE, FALSE>>
    /\ nodes[current].archive_file = NoHandle
    /\ Keys(H, current) = {}
    /\ handles = << >>
    /\ nodes[start].parent # None
    /\ Keys(H, nodes[start].parent) = {"data", "readme.txt"}
====
